---- MODULE Spec2Model ----
(***************************************************************************)
(* Model of lib/time_estimator.py: TimeEstimator.__init__,                 *)
(* extract_estimate and batch_extract.                                     *)
(*                                                                         *)
(* Texts are sequences of segments.  A segment is whitespace ("ws"), a     *)
(* word no configured pattern matches ("w"), or a phrase that the patterns *)
(* of one tag match (tag "E" for "Estimate: <grp>h", "T" for "Time: ..."), *)
(* carrying what group 1 of such a pattern captures there.  A capture is   *)
(* a string of characters, or None when the group took no part in the      *)
(* match.                                                                  *)
(***************************************************************************)
EXTENDS Integers, Sequences, FiniteSets, TLC

VARIABLES config, est, call, issues

vars == <<config, est, call, issues>>

\* ------------------------------------------------------------- bounds
MaxPatterns == 2
MaxTextLen == 2
MaxIssues == 2

\* ---------------------------------------------------- program constants
\* weekly_config.get("default_estimate_hours", 1)
DefaultEstimateHours == 1
\* weekly_config.get("max_estimate_hours", 8)
DefaultMaxHours == 8

\* ------------------------------------------------------------ helpers
Min(a, b) == IF a <= b THEN a ELSE b
Max(a, b) == IF a >= b THEN a ELSE b
Abs(n) == IF n < 0 THEN 0 - n ELSE n

SeqsUpTo(S, n) == UNION {[1..k -> S] : k \in 0..n}

\* ----------------------------------------------------------- captures
\* What match.group(1) returns: a str, or None.
Cap(chars) == [isNone |-> FALSE, s |-> chars]
NoneCap == [isNone |-> TRUE, s |-> <<>>]

Digits == {"0", "2", "9"}
DigitVal(c) == CASE c = "0" -> 0 [] c = "2" -> 2 [] c = "9" -> 9 [] OTHER -> 0

Captures ==
    { Cap(<<"0">>), Cap(<<"2">>), Cap(<<"9">>), Cap(<<"-", "2">>),
      Cap(<<"x">>), NoneCap }

\* ---------------------------------------------------------------- texts
Seg(tag, cap) == [tag |-> tag, cap |-> cap]
Ws == Seg("ws", NoneCap)
Word == Seg("w", NoneCap)
Tags == {"E", "T"}
Segments == {Ws, Word} \cup {Seg(t, c) : t \in Tags, c \in Captures}
Texts == SeqsUpTo(Segments, MaxTextLen)

\* Optional[str]: the argument of extract_estimate.
NoneText == [isNone |-> TRUE, s |-> <<>>]
SomeText(t) == [isNone |-> FALSE, s |-> t]
Bodies == {NoneText} \cup {SomeText(t) : t \in Texts}

\* ------------------------------------------------------------- patterns
\* A pattern string of the configuration: the phrases it matches (tag) and
\* how many capturing groups it has.
Pattern(tag, groups) == [tag |-> tag, groups |-> groups]
PatternStrings == {Pattern("E", 1), Pattern("T", 1), Pattern("T", 0)}
PatternLists == SeqsUpTo(PatternStrings, MaxPatterns)

\* -------------------------------------------------------- configuration
\* The weekly_planner block of config.yaml; every key is optional.
Opt(present, v) == [present |-> present, v |-> v]
Missing == Opt(FALSE, 0)
MissingPatterns == [present |-> FALSE, v |-> <<>>]
Configs ==
    [ estimate_patterns :
          {MissingPatterns} \cup {[present |-> TRUE, v |-> ps] : ps \in PatternLists},
      default_estimate_hours : {Missing, Opt(TRUE, 0), Opt(TRUE, 3)},
      max_estimate_hours : {Missing, Opt(TRUE, 2)} ]

\* dict.get(key, default)
Get(opt, default) == IF opt.present THEN opt.v ELSE default

\* ---------------------------------------------------------- __init__
NoEstimator == [constructed |-> FALSE, raised |-> "", patterns |-> <<>>,
                default_hours |-> 0, max_hours |-> 0]

TimeEstimatorInit(cfg) ==
    [ constructed |-> TRUE,
      raised |-> "",
      patterns |-> Get(cfg.estimate_patterns, <<>>),
      default_hours |-> Get(cfg.default_estimate_hours, DefaultEstimateHours),
      max_hours |-> Get(cfg.max_estimate_hours, DefaultMaxHours) ]

\* --------------------------------------------------- extract_estimate
\* str.strip(): drop leading and trailing whitespace.
RECURSIVE LStrip(_)
LStrip(t) == IF t # <<>> /\ Head(t).tag = "ws" THEN LStrip(Tail(t)) ELSE t

RECURSIVE RStrip(_)
RStrip(t) ==
    IF t # <<>> /\ t[Len(t)].tag = "ws" THEN RStrip(SubSeq(t, 1, Len(t) - 1)) ELSE t

Strip(t) == RStrip(LStrip(t))

\* pattern.search(text): position of the leftmost match, 0 when none.
Search(pattern, t) ==
    IF \E i \in 1..Len(t) : t[i].tag = pattern.tag
    THEN CHOOSE i \in 1..Len(t) :
             /\ t[i].tag = pattern.tag
             /\ \A j \in 1..(i - 1) : t[j].tag # pattern.tag
    ELSE 0

\* int(raw_value) for a str: an optional sign, then one or more digits.
RECURSIVE DigitsValue(_, _)
DigitsValue(s, acc) ==
    IF s = <<>> THEN acc ELSE DigitsValue(Tail(s), 10 * acc + DigitVal(Head(s)))

AllDigits(s) == s # <<>> /\ \A i \in 1..Len(s) : s[i] \in Digits

ParseInt(s) ==
    IF s # <<>> /\ Head(s) = "-"
    THEN IF AllDigits(Tail(s))
         THEN [ok |-> TRUE, n |-> 0 - DigitsValue(Tail(s), 0)]
         ELSE [ok |-> FALSE, n |-> 0]
    ELSE IF AllDigits(s)
         THEN [ok |-> TRUE, n |-> DigitsValue(s, 0)]
         ELSE [ok |-> FALSE, n |-> 0]

\* The outcome of a call: the value returned, or the exception raised;
\* consulted is the number of patterns searched.
Returned(v, k) == [raised |-> "", value |-> v, consulted |-> k]
Raised(e, k) == [raised |-> e, value |-> 0, consulted |-> k]

\* OnMatch with the value also raised to default_hours.
OnMatch_LowerClamp(e, pattern, t, m, k) ==
    IF pattern.groups < 1
    THEN Raised("IndexError", k)
    ELSE LET raw_value == t[m].cap IN
         IF raw_value.isNone
         THEN Raised("TypeError", k)
         ELSE LET parsed == ParseInt(raw_value.s) IN
              IF ~parsed.ok
              THEN Raised("ValueError", k)
              ELSE LET hours == Abs(parsed.n) IN
                   IF hours = 0
                   THEN Returned(e.default_hours, k)
                   ELSE Returned(Min(Max(hours, e.default_hours), e.max_hours), k)

\* OnMatch without the test for zero.
OnMatch_NoZeroCheck(e, pattern, t, m, k) ==
    IF pattern.groups < 1
    THEN Raised("IndexError", k)
    ELSE LET raw_value == t[m].cap IN
         IF raw_value.isNone
         THEN Raised("TypeError", k)
         ELSE LET parsed == ParseInt(raw_value.s) IN
              IF ~parsed.ok
              THEN Raised("ValueError", k)
              ELSE Returned(Min(Abs(parsed.n), e.max_hours), k)

\* OnMatch without abs().
OnMatch_NoAbs(e, pattern, t, m, k) ==
    IF pattern.groups < 1
    THEN Raised("IndexError", k)
    ELSE LET raw_value == t[m].cap IN
         IF raw_value.isNone
         THEN Raised("TypeError", k)
         ELSE LET parsed == ParseInt(raw_value.s) IN
              IF ~parsed.ok
              THEN Raised("ValueError", k)
              ELSE LET hours == parsed.n IN
                   IF hours = 0
                   THEN Returned(e.default_hours, k)
                   ELSE Returned(Min(hours, e.max_hours), k)

\* OnMatch giving default_hours for every parsed value that is not positive.
OnMatch_NonPositiveDefault(e, pattern, t, m, k) ==
    IF pattern.groups < 1
    THEN Raised("IndexError", k)
    ELSE LET raw_value == t[m].cap IN
         IF raw_value.isNone
         THEN Raised("TypeError", k)
         ELSE LET parsed == ParseInt(raw_value.s) IN
              IF ~parsed.ok
              THEN Raised("ValueError", k)
              ELSE IF parsed.n <= 0
                   THEN Returned(e.default_hours, k)
                   ELSE Returned(Min(parsed.n, e.max_hours), k)

\* OnMatch clamping to one below max_hours.
OnMatch_ClampBelowMax(e, pattern, t, m, k) ==
    IF pattern.groups < 1
    THEN Raised("IndexError", k)
    ELSE LET raw_value == t[m].cap IN
         IF raw_value.isNone
         THEN Raised("TypeError", k)
         ELSE LET parsed == ParseInt(raw_value.s) IN
              IF ~parsed.ok
              THEN Raised("ValueError", k)
              ELSE LET hours == Abs(parsed.n) IN
                   IF hours = 0
                   THEN Returned(e.default_hours, k)
                   ELSE Returned(Min(hours, e.max_hours - 1), k)

\* Lines 94-100: the body of the loop for a pattern that matched at m.
OnMatch(e, pattern, t, m, k) ==
    IF pattern.groups < 1
    THEN Raised("IndexError", k)
    ELSE LET raw_value == t[m].cap IN
         IF raw_value.isNone
         THEN Raised("TypeError", k)
         ELSE LET parsed == ParseInt(raw_value.s) IN
              IF ~parsed.ok
              THEN Raised("ValueError", k)
              ELSE LET hours == Abs(parsed.n) IN
                   IF hours = 0
                   THEN Returned(e.default_hours, k)
                   ELSE Returned(Min(hours, e.max_hours), k)

\* ScanPatterns taking the pattern whose match comes first in the text.
ScanPatterns_TextOrder(e, t, k) ==
    LET M == {j \in k..Len(e.patterns) : Search(e.patterns[j], t) # 0} IN
    IF M = {}
    THEN Returned(e.default_hours, Len(e.patterns))
    ELSE LET j == CHOOSE j \in M :
                      \A j2 \in M : Search(e.patterns[j], t) <= Search(e.patterns[j2], t)
         IN  OnMatch(e, e.patterns[j], t, Search(e.patterns[j], t), j)

\* Lines 89-102: the loop over self._patterns, from pattern k on.
RECURSIVE ScanPatterns(_, _, _)
ScanPatterns(e, t, k) ==
    IF k > Len(e.patterns)
    THEN Returned(e.default_hours, k - 1)
    ELSE LET m == Search(e.patterns[k], t) IN
         IF m = 0
         THEN ScanPatterns(e, t, k + 1)
         ELSE OnMatch(e, e.patterns[k], t, m, k)

\* extract_estimate without the test for None: None has no strip().
extract_estimate_NoNoneTest(e, issue_body) ==
    IF issue_body.isNone
    THEN Raised("AttributeError", 0)
    ELSE LET normalized_body == Strip(issue_body.s) IN
         IF normalized_body = <<>>
         THEN Returned(e.default_hours, 0)
         ELSE ScanPatterns(e, normalized_body, 1)

extract_estimate(e, issue_body) ==
    IF issue_body.isNone
    THEN Returned(e.default_hours, 0)
    ELSE LET normalized_body == Strip(issue_body.s) IN
         IF normalized_body = <<>>
         THEN Returned(e.default_hours, 0)
         ELSE ScanPatterns(e, normalized_body, 1)

\* ------------------------------------------------------ batch_extract
\* Python values held by the caller's collection.
NoneV == [kind |-> "none", n |-> 0, s |-> <<>>]
IntV(n) == [kind |-> "int", n |-> n, s |-> <<>>]
StrV(t) == [kind |-> "str", n |-> 0, s |-> t]
\* A one-element list holding the str t.
ListV(t) == [kind |-> "list", n |-> 0, s |-> t]
\* The empty list.
EmptyListV == [kind |-> "emptylist", n |-> 0, s |-> <<>>]

\* A dict, in insertion order: a sequence of key/value pairs with distinct keys.
KV(k, v) == [k |-> k, v |-> v]
DictV(items) == [isdict |-> TRUE, items |-> items, v |-> NoneV]
\* An element of the collection that is not a dict.
NonDict(v) == [isdict |-> FALSE, items |-> <<>>, v |-> v]

HasKey(items, k) == \E i \in 1..Len(items) : items[i].k = k

\* dict.get(k): the value under k, None when the key is missing.
DictGet(items, k) ==
    IF HasKey(items, k)
    THEN items[CHOOSE i \in 1..Len(items) : items[i].k = k].v
    ELSE NoneV

\* d[k] = v: replace the value of an existing key, else insert at the end.
DictSet(items, k, v) ==
    IF HasKey(items, k)
    THEN [i \in 1..Len(items) |-> IF items[i].k = k THEN KV(k, v) ELSE items[i]]
    ELSE Append(items, KV(k, v))

\* str(body) of a value that is not a str: the digits of an int and the
\* brackets of an empty list are a word no pattern matches; the repr of a
\* list shows its str between brackets and quotes.
StrOf(v) ==
    CASE v.kind \in {"int", "emptylist"} -> <<Word>>
      [] v.kind = "list" -> <<Word>> \o v.s \o <<Word>>
      [] OTHER -> v.s

\* Line 117: issue.get("body") if isinstance(issue, dict) else None
BodyOf(issue) == IF issue.isdict THEN DictGet(issue.items, "body") ELSE NoneV

\* BodyArg with every body that is not a str passed as None.
BodyArg_NonTextAbsent(body) ==
    IF body.kind = "str" THEN SomeText(body.s) ELSE NoneText

\* Line 118: body if isinstance(body, str) or body is None else str(body)
BodyArg(body) ==
    IF body.kind = "none" THEN NoneText
    ELSE IF body.kind = "str" THEN SomeText(body.s)
    ELSE SomeText(StrOf(body))

\* Line 119: dict(issue).  An int is not iterable; an empty list gives {}.
DictCopy(issue) ==
    IF issue.isdict THEN [raised |-> "", items |-> issue.items]
    ELSE IF issue.v.kind = "emptylist"
         THEN [raised |-> "", items |-> <<>>]
         ELSE [raised |-> "TypeError", items |-> <<>>]

\* Lines 119-121: the enriched copy appended to results, and the caller's
\* issue after the step.
Enrich(issue, items, estimated) ==
    [ enriched |-> DictV(DictSet(items, "estimated_hours", IntV(estimated))),
      issue |-> issue ]

\* Lines 116-121 for the issues from position i on; inp is the caller's list
\* as the steps so far left it.
RECURSIVE BatchLoop(_, _, _, _)
BatchLoop(e, inp, results, i) ==
    IF i > Len(inp)
    THEN [raised |-> "", results |-> results, issues |-> inp]
    ELSE LET issue == inp[i]
             body == BodyOf(issue)
             estimated == extract_estimate(e, BodyArg(body))
         IN  IF estimated.raised # ""
             THEN [raised |-> estimated.raised, results |-> <<>>, issues |-> inp]
             ELSE LET copy == DictCopy(issue) IN
                  IF copy.raised # ""
                  THEN [raised |-> copy.raised, results |-> <<>>, issues |-> inp]
                  ELSE LET step == Enrich(issue, copy.items, estimated.value) IN
                       BatchLoop(e, [inp EXCEPT ![i] = step.issue],
                                 Append(results, step.enriched), i + 1)

batch_extract(e, inp) == BatchLoop(e, inp, <<>>, 1)

\* The records and other entries callers pass.
IssueElems ==
    { DictV(<<KV("number", IntV(1)), KV("body", StrV(<<Seg("E", Cap(<<"2">>))>>))>>),
      DictV(<<KV("number", IntV(2))>>),
      DictV(<<KV("number", IntV(3)), KV("body", NoneV)>>),
      DictV(<<KV("body", StrV(<<Seg("T", Cap(<<"9">>)), Ws, Seg("E", Cap(<<"0">>))>>)),
              KV("number", IntV(4))>>),
      DictV(<<KV("number", IntV(5)), KV("body", IntV(7))>>),
      DictV(<<KV("number", IntV(6)), KV("body", ListV(<<Seg("E", Cap(<<"2">>))>>))>>),
      DictV(<<KV("number", IntV(7)), KV("body", StrV(<<Seg("E", Cap(<<"x">>))>>))>>),
      DictV(<<KV("estimated_hours", IntV(99)), KV("body", StrV(<<Seg("T", Cap(<<"2">>))>>))>>),
      NonDict(IntV(7)),
      NonDict(EmptyListV) }
IssueLists == SeqsUpTo(IssueElems, MaxIssues)

\* ------------------------------------------------------------ actions
\* call is the call the caller last made and has not yet let go of.
NoCall == [op |-> "none"]

Init ==
    /\ config \in Configs
    /\ est = NoEstimator
    /\ call = NoCall
    /\ issues = <<>>

Construct ==
    /\ ~est.constructed
    /\ est' = TimeEstimatorInit(config)
    /\ UNCHANGED <<config, call, issues>>

\* ExtractEstimate consuming the pattern list while it searches.
ExtractEstimate_DropsPattern ==
    /\ est.constructed
    /\ call = NoCall
    /\ \E body \in Bodies :
           call' = [op |-> "extract_estimate", arg |-> body,
                    out |-> extract_estimate(est, body)]
    /\ est' = [est EXCEPT !.patterns =
                   IF est.patterns = <<>> THEN <<>> ELSE Tail(est.patterns)]
    /\ UNCHANGED <<config, issues>>

ExtractEstimate ==
    /\ est.constructed
    /\ call = NoCall
    /\ \E body \in Bodies :
           call' = [op |-> "extract_estimate", arg |-> body,
                    out |-> extract_estimate(est, body)]
    /\ UNCHANGED <<config, est, issues>>

BatchExtract ==
    /\ est.constructed
    /\ call = NoCall
    /\ \E inp \in IssueLists :
           LET r == batch_extract(est, inp) IN
           /\ call' = [op |-> "batch_extract", arg |-> inp,
                       out |-> [raised |-> r.raised, results |-> r.results]]
           /\ issues' = r.issues
    /\ UNCHANGED <<config, est>>

\* The caller is done with the last result and with the list it passed.
Return ==
    /\ call # NoCall
    /\ call' = NoCall
    /\ issues' = <<>>
    /\ UNCHANGED <<config, est>>

Next == Construct \/ ExtractEstimate \/ BatchExtract \/ Return

Spec == Init /\ [][Next]_vars

\* The caller passes the text of its last extract_estimate call once more,
\* and keeps the first result beside the second.
ExtractAgain ==
    /\ call.op = "extract_estimate"
    /\ call' = [op |-> "extract_estimate_again", arg |-> call.arg,
                first |-> call.out,
                out |-> extract_estimate(est, call.arg)]
    /\ UNCHANGED <<config, est, issues>>

NextAgain == Next \/ ExtractAgain

SpecAgain == Init /\ [][NextAgain]_vars

\* ------------------------------------------------- what the claims read
\* The pattern p matches somewhere in t.
Matches(p, t) == \E i \in 1..Len(t) : t[i].tag = p.tag

\* The earliest pattern of the configured list that matches t; 0 when none.
FirstMatching(e, t) ==
    IF \E k \in 1..Len(e.patterns) : Matches(e.patterns[k], t)
    THEN CHOOSE k \in 1..Len(e.patterns) :
             /\ Matches(e.patterns[k], t)
             /\ \A j \in 1..(k - 1) : ~Matches(e.patterns[j], t)
    ELSE 0

\* What group 1 of p captures at p's leftmost match in t.
LeftmostCap(p, t) ==
    LET I == {i \in 1..Len(t) : t[i].tag = p.tag}
    IN  t[CHOOSE i \in I : \A j \in I : i <= j].cap

XCall == call.op = "extract_estimate"
XFirst == FirstMatching(est, call.arg.s)
XPattern == est.patterns[XFirst]
XCap == LeftmostCap(XPattern, call.arg.s)
\* The first matching pattern captures an integer.
XParses ==
    /\ XCall
    /\ XFirst # 0
    /\ XPattern.groups >= 1
    /\ ~XCap.isNone
    /\ ParseInt(XCap.s).ok
XValue == ParseInt(XCap.s).n
\* A pattern later in the list than the first matching one matches too, and
\* captures something else.
XLaterDiffers ==
    \E k \in (XFirst + 1)..Len(est.patterns) :
        /\ Matches(est.patterns[k], call.arg.s)
        /\ LeftmostCap(est.patterns[k], call.arg.s) # XCap

\* ------------------------------------------------------------------ C1
\* C1 (as claimed): for every configuration construction accepts and every
\* text, extract_estimate returns an integer r with
\* default_hours <= r <= max_hours.
C1_ResultWithinBounds ==
    XCall =>
        /\ call.out.raised = ""
        /\ est.default_hours <= call.out.value
        /\ call.out.value <= est.max_hours

C3_DefaultWhenNoMatch ==
    (XCall /\ ( \/ call.arg.isNone
                \/ \A i \in 1..Len(call.arg.s) : call.arg.s[i].tag = "ws"
                \/ \A k \in 1..Len(est.patterns) :
                       ~Matches(est.patterns[k], call.arg.s) )) =>
        /\ call.out.raised = ""
        /\ call.out.value = est.default_hours

\* A text with words, searched by two patterns, none of which matches.
C3_Witness ==
    /\ XCall
    /\ ~call.arg.isNone
    /\ \E i \in 1..Len(call.arg.s) : call.arg.s[i].tag # "ws"
    /\ Len(est.patterns) = 2
    /\ XFirst = 0
    /\ call.out.consulted = 2
    /\ call.out.value = est.default_hours
    /\ est.default_hours = 3

\* ------------------------------------------------------------------ C4
\* C4 (as claimed): when the first matching pattern captures zero, the
\* result is default_hours and never 0, and no later pattern is consulted.
C4_ZeroNeverZero ==
    (XParses /\ XValue = 0) =>
        /\ call.out.raised = ""
        /\ call.out.value = est.default_hours
        /\ call.out.value # 0
        /\ call.out.consulted = XFirst

\* C4 (amended): when the first matching pattern captures zero, the result
\* is default_hours and no later pattern is consulted.
C4_ZeroGivesDefault ==
    (XParses /\ XValue = 0) =>
        /\ call.out.raised = ""
        /\ call.out.value = est.default_hours
        /\ call.out.consulted = XFirst

\* Zero captured by the first matching pattern, a non-zero integer by a
\* later one.
C4_Witness ==
    /\ XParses
    /\ XValue = 0
    /\ est.default_hours # 0
    /\ \E k \in (XFirst + 1)..Len(est.patterns) :
           /\ Matches(est.patterns[k], call.arg.s)
           /\ est.patterns[k].groups >= 1
           /\ ~LeftmostCap(est.patterns[k], call.arg.s).isNone
           /\ ParseInt(LeftmostCap(est.patterns[k], call.arg.s).s).ok
           /\ ParseInt(LeftmostCap(est.patterns[k], call.arg.s).s).n # 0
    /\ call.out.value = est.default_hours

\* ------------------------------------------------------------------ C5
\* What a parsed capture v is normalized to.
HoursOf(e, v) == IF v = 0 THEN e.default_hours ELSE Min(Abs(v), e.max_hours)

\* C5: when several patterns match, the pattern earliest in the configured
\* list decides (not the match earliest in the text), and no pattern after
\* it is consulted.
C5_FirstPatternWins ==
    (XCall /\ XFirst # 0) =>
        /\ call.out.consulted = XFirst
        /\ call.out.raised = "" => /\ XParses
                                   /\ call.out.value = HoursOf(est, XValue)

\* The second pattern of the list matches earlier in the text than the
\* first, with another capture, and the first pattern's capture is returned.
C5_Witness ==
    /\ XParses
    /\ XFirst = 1
    /\ Len(est.patterns) = 2
    /\ Matches(est.patterns[2], call.arg.s)
    /\ Search(est.patterns[2], call.arg.s) < Search(est.patterns[1], call.arg.s)
    /\ est.patterns[2].groups >= 1
    /\ ParseInt(LeftmostCap(est.patterns[2], call.arg.s).s).ok
    /\ HoursOf(est, ParseInt(LeftmostCap(est.patterns[2], call.arg.s).s).n)
           # HoursOf(est, XValue)
    /\ call.out.value = HoursOf(est, XValue)

\* ------------------------------------------------------------------ C6
\* C6 (as claimed): construction fails when default_estimate_hours exceeds
\* max_estimate_hours, so no estimator has default_hours > max_hours.
C6_DefaultAtMostMax ==
    est.constructed => est.default_hours <= est.max_hours

\* ------------------------------------------------------------------ C7
BCall == call.op = "batch_extract"
AllRecords(inp) == \A i \in 1..Len(inp) : inp[i].isdict

\* No record brings an estimated_hours field of its own (batch_extract
\* writes that field of the copy, line 120).
NoneEstimated(inp) ==
    \A i \in 1..Len(inp) : ~HasKey(inp[i].items, "estimated_hours")

\* C7 (as claimed, for records that have no estimated_hours field yet): for
\* every sequence of records batch_extract returns a sequence of the same
\* length and order whose element i carries every field of record i with
\* its value, and the caller's sequence and records are as they were.
C7_BatchPreservesRecords ==
    (BCall /\ AllRecords(call.arg) /\ NoneEstimated(call.arg)) =>
        /\ call.out.raised = ""
        /\ Len(call.out.results) = Len(call.arg)
        /\ \A i \in 1..Len(call.arg) :
               \A j \in 1..Len(call.arg[i].items) :
                   LET f == call.arg[i].items[j] IN
                   /\ HasKey(call.out.results[i].items, f.k)
                   /\ DictGet(call.out.results[i].items, f.k) = f.v
        /\ issues = call.arg

\* ------------------------------------------------------------------ C8
\* The body field of an entry: None when the entry has none.
RecordBody(issue) ==
    IF issue.isdict /\ HasKey(issue.items, "body")
    THEN DictGet(issue.items, "body")
    ELSE NoneV

EstimatedHours(enriched) == DictGet(enriched.items, "estimated_hours")

C9_NonRecordTolerated ==
    (BCall /\ (\E i \in 1..Len(call.arg) : ~call.arg[i].isdict)
           /\ (\A i \in 1..Len(call.arg) :
                   call.arg[i].isdict =>
                       extract_estimate(est, BodyArg(RecordBody(call.arg[i]))).raised = "")) =>
        call.out.raised = ""

\* ----------------------------------------------------------------- C10
\* C10 (as claimed): when the capture of a matching pattern is no integer,
\* extract_estimate does not raise; it goes on with the next pattern and
\* returns default_hours when no later pattern matches.
C10_UnparseableSkipped ==
    (XCall /\ XFirst # 0 /\ ~XParses) =>
        /\ call.out.raised = ""
        /\ (\A k \in (XFirst + 1)..Len(est.patterns) :
                ~Matches(est.patterns[k], call.arg.s))
               => call.out.value = est.default_hours

\* ----------------------------------------------------------------- C11
\* "Estimate: 2 hours": one phrase of the "Estimate:" kind with 2 as its number.
EstimateTwoHours == SomeText(<<Seg("E", Cap(<<"2">>))>>)

\* C11 (as claimed): construction falls back key by key: a missing
\* default_estimate_hours gives 1, a missing max_estimate_hours gives 8, and
\* missing estimate_patterns give the built-in patterns, so that an
\* estimator built without estimate_patterns extracts 2 from
\* "Estimate: 2 hours".
C11_BuiltInDefaults ==
    est.constructed =>
        /\ ~config.default_estimate_hours.present => est.default_hours = 1
        /\ ~config.max_estimate_hours.present => est.max_hours = 8
        /\ (~config.estimate_patterns.present /\ XCall /\ call.arg = EstimateTwoHours) =>
               /\ call.out.raised = ""
               /\ call.out.value = 2

\* ----------------------------------------------------------------- C12
\* C12: whatever extract_estimate and batch_extract calls were made, the
\* estimator's pattern list, default_hours and max_hours are what
\* construction set them to, and extract_estimate called again with the
\* same text returns what it returned before.
C12_NoHiddenState ==
    /\ est.constructed => est = TimeEstimatorInit(config)
    /\ call.op = "extract_estimate_again" => call.out = call.first

\* A text that the second of two patterns matches, passed twice, with a
\* value other than default_hours returned both times.
C12_Witness ==
    /\ call.op = "extract_estimate_again"
    /\ Len(est.patterns) = 2
    /\ XFirst = 2
    /\ call.out.raised = ""
    /\ call.out.value # est.default_hours
    /\ call.first.value = call.out.value

\* ----------------------------------------------------------------- C13
\* The text t with the sign taken off the capture of p's leftmost match.
SignDropped(p, t) ==
    LET m == Search(p, t)
    IN  [t EXCEPT ![m] = Seg(t[m].tag, Cap(Tail(t[m].cap.s)))]

XMagnitude == IF XValue < 0 THEN 0 - XValue ELSE XValue

\* C15: a non-zero magnitude h is clamped from above only: max_hours is
\* returned when h > max_hours, h itself when h <= max_hours, also when h is
\* below default_hours.
C15_ClampedFromAboveOnly ==
    (XParses /\ XValue # 0) =>
        /\ call.out.raised = ""
        /\ XMagnitude > est.max_hours => call.out.value = est.max_hours
        /\ XMagnitude <= est.max_hours => call.out.value = XMagnitude

\* A capture equal to max_hours is returned as it is.
C15_Witness ==
    /\ XParses
    /\ XValue > 0
    /\ XMagnitude = est.max_hours
    /\ est.default_hours < est.max_hours
    /\ call.out.value = XMagnitude

\* A capture above max_hours comes back as max_hours.
C15_WitnessOver ==
    /\ XParses
    /\ XMagnitude > est.max_hours
    /\ call.out.value = est.max_hours

====
